---------------------------- MODULE Spec2Model ----------------------------
(***************************************************************************)
(* Session lifecycle and local persistence layer of the wellness          *)
(* companion: LocalStorageService (src/src/services/RecommendationEngine   *)
(* .ts, lines 442-769) and SessionManager (src/src/services/               *)
(* SessionManager.ts, lines 1-391).                                        *)
(*                                                                         *)
(* JavaScript values are tagged records: [k |-> "string", s |-> ...],      *)
(* [k |-> "Date", t |-> ...], [k |-> "undefined"], [k |-> "null"],         *)
(* [k |-> "object", f |-> <function from property names to values>],       *)
(* [k |-> "array", e |-> <sequence>].  Strings whose characters matter     *)
(* (storage keys, user ids, property names) are sequences of characters.   *)
(***************************************************************************)
EXTENDS Integers, Sequences, FiniteSets, TLC

VARIABLES
    ls,                   \* window.localStorage: storage key -> stored string
    available,            \* whether the probe write of isLocalStorageAvailable succeeds
    now,                  \* the host clock (Date.now()), in abstract ticks
    last,                 \* the last call and how it returned (history)
    currentSession,       \* SessionManager.currentSession
    autoSaveTimer,        \* SessionManager.autoSaveTimer: next firing time or Null
    sessionTimeoutTimer,  \* SessionManager.sessionTimeoutTimer: deadline or Null
    isOnline,             \* SessionManager.isOnline
    navigatorOnLine,      \* navigator.onLine of the host
    pendingSync,          \* SessionManager.pendingSync
    sessionCount,         \* number of session ids generated so far
    drainPos              \* syncPendingData suspended at its await: index of the
                          \* entry it writes next, 0 when no drain is under way

vars == <<ls, available, now, last, currentSession, autoSaveTimer,
          sessionTimeoutTimer, isOnline, navigatorOnLine, pendingSync,
          sessionCount, drainPos>>

storeVars == <<ls, available>>
sessionVars == <<currentSession, autoSaveTimer, sessionTimeoutTimer, isOnline,
                 navigatorOnLine, pendingSync, sessionCount, drainPos>>

-----------------------------------------------------------------------------
(* Bounds of the model *)

MaxStoreTime == 1     \* the clock runs 0 .. MaxStoreTime under SpecStore
MaxTime == 2          \* the clock runs 0 .. MaxTime in the session specifications
MaxSessions == 2      \* session ids generated in one run
MaxPending == 2       \* length of a session's pending-recommendation list
MaxQueue == 2         \* length of the pending-sync queue

-----------------------------------------------------------------------------
(* JavaScript values *)

JsNull == [k |-> "null"]
JsUndefined == [k |-> "undefined"]
JsString(s) == [k |-> "string", s |-> s]
JsDate(t) == [k |-> "Date", t |-> t]
\* the string Date.prototype.toISOString() gives for the instant t
IsoString(t) == [k |-> "string", iso |-> t]
JsObject(f) == [k |-> "object", f |-> f]
JsArray(e) == [k |-> "array", e |-> e]
JsBool(b) == [k |-> "boolean", b |-> b]
JsNumber(n) == [k |-> "number", n |-> n]

EmptyMap == [x \in {} |-> JsNull]

\* a const declaration: Body of the value v, which is computed once
Let(v, Body(_)) == CHOOSE r \in {Body(x) : x \in {v}} : TRUE

\* a string holding a character above U+00FF, which btoa() rejects
WideString == JsString("caf\\u2615")

\* ToBoolean of a value (the ! and || and ?: of the code)
Truthy(v) ==
    CASE v.k = "null" -> FALSE
      [] v.k = "undefined" -> FALSE
      [] v.k = "boolean" -> v.b
      [] v.k = "number" -> v.n # 0
      [] v.k = "string" -> v # JsString("")
      [] OTHER -> TRUE

\* property access on an object value: undefined when the property is absent
Get(obj, name) ==
    IF obj.k = "object" /\ name \in DOMAIN obj.f THEN obj.f[name] ELSE JsUndefined

\* the value JSON.parse(JSON.stringify(v)) gives back: a Date becomes its ISO
\* string, an undefined property is dropped, an undefined array element
\* becomes null
RECURSIVE Serialized(_)
Serialized(v) ==
    CASE v.k = "Date" -> IsoString(v.t)
      [] v.k = "object" ->
            JsObject([n \in {m \in DOMAIN v.f : v.f[m].k # "undefined"}
                        |-> Serialized(v.f[n])])
      [] v.k = "array" ->
            JsArray([i \in 1..Len(v.e) |->
                        IF v.e[i].k = "undefined" THEN JsNull ELSE Serialized(v.e[i])])
      [] OTHER -> v

\* JSON.stringify(v): the text is represented by the value it denotes
JSONstringify(v) == [k |-> "string", json |-> Serialized(v)]

IsJSONText(str) == "json" \in DOMAIN str

\* JSON.parse(str), for a str that IsJSONText
JSONparse(str) == str.json

\* does the text of JSON.stringify(v) hold a character above U+00FF
RECURSIVE HasWideChar(_)
HasWideChar(v) ==
    CASE v.k = "string" -> v = WideString
      [] v.k = "object" -> \E n \in DOMAIN v.f : HasWideChar(v.f[n])
      [] v.k = "array" -> \E i \in 1..Len(v.e) : HasWideChar(v.e[i])
      [] OTHER -> FALSE

-----------------------------------------------------------------------------
(* Character strings *)

Chars ==
    [ u1 |-> <<"u", "1">>,
      u12 |-> <<"u", "1", "2">>,
      regular |-> <<"r", "e", "g", "u", "l", "a", "r">>,
      sensitive |-> <<"s", "e", "n", "s", "i", "t", "i", "v", "e">>,
      meta |-> <<"m", "e", "t", "a">>,
      mood |-> <<"m", "o", "o", "d">>,
      Email |-> <<"E", "m", "a", "i", "l">>,
      _metadata |-> <<"_", "m", "e", "t", "a", "d", "a", "t", "a">>,
      userState |-> <<"u", "s", "e", "r", "S", "t", "a", "t", "e">>,
      userProgress |-> <<"u", "s", "e", "r", "P", "r", "o", "g", "r", "e", "s", "s">>,
      pendingRecommendations |->
          <<"p", "e", "n", "d", "i", "n", "g", "R", "e", "c", "o", "m", "m", "e",
            "n", "d", "a", "t", "i", "o", "n", "s">>,
      sessionInfo |-> <<"s", "e", "s", "s", "i", "o", "n", "I", "n", "f", "o">> ]

\* String.prototype.includes
Includes(str, sub) ==
    \E i \in 0..(Len(str) - Len(sub)) : SubSeq(str, i + 1, i + Len(sub)) = sub

\* String.prototype.startsWith
StartsWith(str, pre) ==
    Len(pre) <= Len(str) /\ SubSeq(str, 1, Len(pre)) = pre

LowerOf ==
    [E |-> "e", S |-> "s", P |-> "p", R |-> "r", I |-> "i"]

\* String.prototype.toLowerCase
toLowerCase(str) ==
    [i \in 1..Len(str) |->
        IF str[i] \in DOMAIN LowerOf THEN LowerOf[str[i]] ELSE str[i]]

-----------------------------------------------------------------------------
(* LocalStorageService *)

Null == [k |-> "null"]

NoError == "none"
StoreError == "Failed to store user data"
ExportError == "Failed to export user data"
ImportError == "Failed to import user data"
EncryptError == "Failed to encrypt sensitive data"
StartError == "Failed to start session"
NoActiveSession == "No active session"

storagePrefix ==
    <<"a", "d", "h", "d", "_", "c", "o", "m", "p", "a", "n", "i", "o", "n", "_">>

getStorageKey(userId, dataType) ==
    storagePrefix \o Chars[userId] \o <<"_">> \o Chars[dataType]

\* localStorage.setItem / removeItem on the key -> string map
setItem(store, key, value) ==
    [x \in DOMAIN store \cup {key} |-> IF x = key THEN value ELSE store[x]]

removeItem(store, key) ==
    [x \in DOMAIN store \ {key} |-> store[x]]

removeItems(store, keys) ==
    [x \in DOMAIN store \ keys |-> store[x]]

\* the probe of a throwaway key succeeds exactly when the medium accepts writes
isLocalStorageAvailable == available

sensitiveFields ==
    {"personalInfo", "medicalInfo", "emergencyContacts", "privateNotes",
     "assessmentResponses"}

sensitiveKeywords ==
    { <<"p", "a", "s", "s", "w", "o", "r", "d">>,
      <<"e", "m", "a", "i", "l">>,
      <<"p", "h", "o", "n", "e">>,
      <<"a", "d", "d", "r", "e", "s", "s">>,
      <<"s", "s", "n">>,
      <<"m", "e", "d", "i", "c", "a", "l">> }

isSensitiveField(key) ==
    LET keyLower == toLowerCase(Chars[key])
    IN  \E keyword \in sensitiveKeywords : Includes(keyLower, keyword)

Restrict(data, keys) == [n \in keys |-> data[n]]

separateData(data) ==
    LET sens == {n \in DOMAIN data : n \in sensitiveFields \/ isSensitiveField(n)}
    IN  [ sensitiveData |-> Restrict(data, sens),
          regularData |-> Restrict(data, DOMAIN data \ sens) ]

\* encryptSensitiveData: JSON.stringify, btoa, XOR with the repeating key,
\* btoa.  The first btoa throws on a character above U+00FF; on every other
\* text the transform is a bijection onto its image, and the blob is
\* represented by the text it encrypts.
encryptSensitiveData(data) ==
    IF HasWideChar(JsObject(data))
    THEN [ok |-> FALSE, value |-> JsString("")]
    ELSE [ok |-> TRUE, value |-> [k |-> "string", enc |-> JSONstringify(JsObject(data))]]

\* Variant of decryptSensitiveData with a wrong key: the text never parses
decryptSensitiveData_WrongKey(encryptedData) == EmptyMap

\* decryptSensitiveData: any failure (atob, JSON.parse) is swallowed and
\* gives the empty mapping
decryptSensitiveData(encryptedData) ==
    IF "enc" \in DOMAIN encryptedData /\ IsJSONText(encryptedData.enc)
    THEN JSONparse(encryptedData.enc).f
    ELSE EmptyMap

\* Variant of metadataOf that derives the version tag from the clock
metadataOf_ClockVersion(userId, t) ==
    JsObject([lastUpdated |-> IsoString(t), version |-> JsNumber(t),
              userId |-> JsString(userId)])

metadataOf(userId, t) ==
    JsObject([lastUpdated |-> IsoString(t), version |-> JsString("1.0"),
              userId |-> JsString(userId)])

\* storeUserData that removes the partition in which data has no field
storeUserData_ClearsEmptyPartition(store, userId, data, t) ==
    IF ~isLocalStorageAvailable
    THEN [ls |-> store, err |-> StoreError]
    ELSE
      LET sep == separateData(data)
          s1 == IF DOMAIN sep.regularData # {}
                THEN setItem(store, getStorageKey(userId, "regular"),
                             JSONstringify(JsObject(sep.regularData)))
                ELSE removeItem(store, getStorageKey(userId, "regular"))
          enc == encryptSensitiveData(sep.sensitiveData)
      IN  IF DOMAIN sep.sensitiveData # {} /\ ~enc.ok
          THEN [ls |-> s1, err |-> StoreError]
          ELSE
            LET s2 == IF DOMAIN sep.sensitiveData # {}
                      THEN setItem(s1, getStorageKey(userId, "sensitive"), enc.value)
                      ELSE removeItem(s1, getStorageKey(userId, "sensitive"))
                s3 == setItem(s2, getStorageKey(userId, "meta"),
                              JSONstringify(metadataOf(userId, t)))
            IN  [ls |-> s3, err |-> NoError]

\* storeUserData(userId, data) at time t on the storage `store`: the storage
\* it leaves and the error it throws
storeUserData(store, userId, data, t) ==
    IF ~isLocalStorageAvailable
    THEN [ls |-> store, err |-> StoreError]
    ELSE
      LET sep == separateData(data)
          s1 == IF DOMAIN sep.regularData # {}
                THEN setItem(store, getStorageKey(userId, "regular"),
                             JSONstringify(JsObject(sep.regularData)))
                ELSE store
          enc == encryptSensitiveData(sep.sensitiveData)
      IN  IF DOMAIN sep.sensitiveData # {} /\ ~enc.ok
          THEN [ls |-> s1, err |-> StoreError]
          ELSE
            LET s2 == IF DOMAIN sep.sensitiveData # {}
                      THEN setItem(s1, getStorageKey(userId, "sensitive"), enc.value)
                      ELSE s1
                s3 == setItem(s2, getStorageKey(userId, "meta"),
                              JSONstringify(metadataOf(userId, t)))
            IN  [ls |-> s3, err |-> NoError]

\* retrieveUserData(userId): the combined mapping, or Null
retrieveUserData(store, userId) ==
    IF ~isLocalStorageAvailable
    THEN Null
    ELSE
      LET regularKey == getStorageKey(userId, "regular")
          sensitiveKey == getStorageKey(userId, "sensitive")
          metaKey == getStorageKey(userId, "meta")
          regularData == IF regularKey \in DOMAIN store
                         THEN JSONparse(store[regularKey]).f ELSE EmptyMap
          sensitiveData == IF sensitiveKey \in DOMAIN store
                           THEN decryptSensitiveData(store[sensitiveKey]) ELSE EmptyMap
          metadata == IF metaKey \in DOMAIN store
                      THEN JSONparse(store[metaKey]) ELSE JsNull
          names == DOMAIN regularData \cup DOMAIN sensitiveData \cup {"_metadata"}
          combinedData ==
              [n \in names |->
                  IF n = "_metadata" THEN metadata
                  ELSE IF n \in DOMAIN sensitiveData THEN sensitiveData[n]
                  ELSE regularData[n]]
      IN  IF Cardinality(DOMAIN combinedData) > 1 THEN JsObject(combinedData) ELSE Null

\* cleanupLegacyKeys(userId): the keys it removes
legacyKeys(store, userId) ==
    {key \in DOMAIN store :
        StartsWith(key, storagePrefix) /\ Includes(key, Chars[userId])}

cleanupLegacyKeys(store, userId) == removeItems(store, legacyKeys(store, userId))

deleteUserData(store, userId) ==
    IF ~isLocalStorageAvailable
    THEN store
    ELSE
      LET s1 == removeItem(store, getStorageKey(userId, "regular"))
          s2 == removeItem(s1, getStorageKey(userId, "sensitive"))
          s3 == removeItem(s2, getStorageKey(userId, "meta"))
      IN  cleanupLegacyKeys(s3, userId)

clearAllData(store) ==
    IF ~isLocalStorageAvailable
    THEN store
    ELSE removeItems(store, {key \in DOMAIN store : StartsWith(key, storagePrefix)})

\* Variant of exportUserData that leaves _metadata in the exported data
exportUserData_KeepsMetadata(store, userId, t) ==
    LET userData == retrieveUserData(store, userId)
    IN  IF ~Truthy(userData)
        THEN [err |-> ExportError, text |-> JsString("")]
        ELSE [err |-> NoError,
              text |-> JSONstringify(
                  JsObject([exportedAt |-> IsoString(t), userId |-> JsString(userId),
                            data |-> userData, version |-> JsString("1.0")]))]

\* exportUserData(userId) at time t: the envelope text, or the error
exportUserData(store, userId, t) ==
    LET userData == retrieveUserData(store, userId)
    IN  IF ~Truthy(userData)
        THEN [err |-> ExportError, text |-> JsString("")]
        ELSE
          LET exportData == Restrict(userData.f, DOMAIN userData.f \ {"_metadata"})
              exportObject ==
                  JsObject([exportedAt |-> IsoString(t), userId |-> JsString(userId),
                            data |-> JsObject(exportData), version |-> JsString("1.0")])
          IN  [err |-> NoError, text |-> JSONstringify(exportObject)]

\* Variant of validImport that forgets the version field
validImport_NoVersion(importObject) ==
    /\ Truthy(Get(importObject, "data"))
    /\ Truthy(Get(importObject, "userId"))

\* the validation of importUserData: does the parsed envelope pass
validImport(importObject) ==
    /\ Truthy(Get(importObject, "data"))
    /\ Truthy(Get(importObject, "userId"))
    /\ Truthy(Get(importObject, "version"))

\* importUserData(userId, exportedData) at time t
importUserData(store, userId, exportedData, t) ==
    IF ~IsJSONText(exportedData)
    THEN [ls |-> store, err |-> ImportError]          \* JSON.parse throws
    ELSE
      LET importObject == JSONparse(exportedData)
      IN  IF importObject.k # "object"
          THEN [ls |-> store, err |-> ImportError]    \* property of null, or no fields
          ELSE IF ~validImport(importObject)
          THEN [ls |-> store, err |-> ImportError]
          ELSE
            LET r == storeUserData(store, userId, Get(importObject, "data").f, t)
            IN  [ls |-> r.ls, err |-> IF r.err = NoError THEN NoError ELSE ImportError]

-----------------------------------------------------------------------------
(* Inputs of the storage operations *)

Users == {"u1", "u12"}

FieldValues ==
    [ mood |-> {JsString("good"), JsDate(0), JsUndefined},
      Email |-> {JsString("good"), WideString} ]

\* the field mappings handed to storeUserData
Data ==
    UNION { {d \in [names -> UNION {FieldValues[n] : n \in names}] :
                \A n \in names : d[n] \in FieldValues[n]} :
            names \in SUBSET DOMAIN FieldValues }

EnvelopeData == { [mood |-> JsString("good"), Email |-> JsString("good")] }

Optional(name, values) ==
    {EmptyMap} \cup {[n \in {name} |-> v] : v \in values}

Merge(f, g) == [n \in DOMAIN f \cup DOMAIN g |-> IF n \in DOMAIN f THEN f[n] ELSE g[n]]

\* the parsed envelopes handed to importUserData: each mandatory field present or not
Envelopes ==
    { JsObject(Merge(Merge(a, b), c)) :
        a \in Optional("data", {JsObject(d) : d \in EnvelopeData}),
        b \in Optional("userId", {JsString("u1")}),
        c \in Optional("version", {JsString("1.0")}) }

\* the texts handed to importUserData: envelopes, the text "null", and a text
\* that is not JSON
ImportTexts ==
    {JSONstringify(e) : e \in Envelopes}
        \cup {JSONstringify(JsNull), JsString("not json")}

\* the values of the fields handed to encryptSensitiveData
PlainValues ==
    { JsString("good"), WideString, JsDate(0), JsUndefined, JsNumber(1),
      JsObject([email |-> JsString("good")]) }

\* the field mappings handed to encryptSensitiveData
PlainMappings ==
    { Merge(a, b) : a \in Optional("personalInfo", PlainValues),
                    b \in Optional("privateNotes", PlainValues) }

\* a key of another application in the same localStorage
foreignKey == <<"u", "1", "_", "d", "r", "a", "f", "t">>

-----------------------------------------------------------------------------
(* State after construction *)

Init ==
    /\ ls = (foreignKey :> JsString("good"))
    /\ available = TRUE
    /\ now = 0
    /\ last = [op |-> "new", userId |-> "", err |-> NoError, arg |-> Null]
    /\ currentSession = Null
    /\ autoSaveTimer = Null
    /\ sessionTimeoutTimer = Null
    /\ navigatorOnLine \in BOOLEAN
    /\ isOnline = navigatorOnLine
    /\ pendingSync = <<>>
    /\ sessionCount = 0
    /\ drainPos = 0

CalledWith(op, userId, err, arg) ==
    last' = [op |-> op, userId |-> userId, err |-> err, arg |-> arg]

Called(op, userId, err) == CalledWith(op, userId, err, Null)

-----------------------------------------------------------------------------
(* The host: clock and storage medium *)

Tick(max) ==
    /\ now < max
    /\ now' = now + 1
    /\ UNCHANGED <<ls, available, last, sessionVars>>

\* the medium starts or stops accepting writes (quota reached, storage disabled)
MediumChange ==
    /\ available' = ~available
    /\ Called("medium", "", NoError)
    /\ UNCHANGED <<ls, now, sessionVars>>

-----------------------------------------------------------------------------
(* Calls on LocalStorageService *)

StoreUserData(userId, data) ==
    LET r == storeUserData(ls, userId, data, now)
    IN  /\ ls' = r.ls
        /\ Called("storeUserData", userId, r.err)
        /\ UNCHANGED <<available, now, sessionVars>>

RetrieveUserData(userId) ==
    /\ Called("retrieveUserData", userId, NoError)
    /\ UNCHANGED <<ls, available, now, sessionVars>>

ExportUserData(userId) ==
    LET r == exportUserData(ls, userId, now)
    IN  /\ Called("exportUserData", userId, r.err)
        /\ UNCHANGED <<ls, available, now, sessionVars>>

ImportUserData(userId, exportedData) ==
    LET r == importUserData(ls, userId, exportedData, now)
    IN  /\ ls' = r.ls
        /\ Called("importUserData", userId, r.err)
        /\ UNCHANGED <<available, now, sessionVars>>

DeleteUserData(userId) ==
    /\ ls' = deleteUserData(ls, userId)
    /\ Called("deleteUserData", userId, NoError)
    /\ UNCHANGED <<available, now, sessionVars>>

ClearAllData ==
    /\ ls' = clearAllData(ls)
    /\ Called("clearAllData", "", NoError)
    /\ UNCHANGED <<available, now, sessionVars>>

\* encryptSensitiveData(data) on the mapping chosen at the start
EncryptSensitiveData ==
    LET r == encryptSensitiveData(last.arg.data)
    IN  /\ last.op = "plaintext"
        /\ CalledWith("encryptSensitiveData", "",
                      IF r.ok THEN NoError ELSE EncryptError,
                      [data |-> last.arg.data, encrypted |-> r.value])
        /\ UNCHANGED <<ls, available, now, sessionVars>>

\* decryptSensitiveData(encryptedData) on the blob encryptSensitiveData returned
DecryptSensitiveData ==
    /\ last.op = "encryptSensitiveData" /\ last.err = NoError
    /\ CalledWith("decryptSensitiveData", "", NoError,
                  [ data |-> last.arg.data,
                    decrypted |-> decryptSensitiveData(last.arg.encrypted) ])
    /\ UNCHANGED <<ls, available, now, sessionVars>>

NextStore ==
    \/ Tick(MaxStoreTime)
    \/ MediumChange
    \/ \E userId \in Users, data \in Data : StoreUserData(userId, data)
    \/ \E userId \in Users : ExportUserData(userId)
    \/ \E userId \in Users, text \in ImportTexts : ImportUserData(userId, text)
    \/ \E userId \in Users : DeleteUserData(userId)
    \/ ClearAllData

InitStore == Init /\ isOnline

SpecStore == InitStore /\ [][NextStore]_vars

\* the encryption of every field mapping of PlainMappings, and the decryption
\* of what it returns
InitCrypto ==
    /\ ls = (foreignKey :> JsString("good"))
    /\ available = TRUE
    /\ now = 0
    /\ currentSession = Null
    /\ autoSaveTimer = Null
    /\ sessionTimeoutTimer = Null
    /\ navigatorOnLine = TRUE
    /\ isOnline = TRUE
    /\ pendingSync = <<>>
    /\ sessionCount = 0
    /\ drainPos = 0
    /\ \E data \in PlainMappings :
          last = [ op |-> "plaintext", userId |-> "", err |-> NoError,
                   arg |-> [data |-> data] ]

NextCrypto == EncryptSensitiveData \/ DecryptSensitiveData

SpecCrypto == InitCrypto /\ [][NextCrypto]_vars

-----------------------------------------------------------------------------
(* SessionManager *)

DefaultAutoSaveInterval == 30000
DefaultSessionTimeout == 1800000

\* the manager's fields and the storage it writes, as one value
Manager ==
    [ cs |-> currentSession, ast |-> autoSaveTimer, stt |-> sessionTimeoutTimer,
      q |-> pendingSync, st |-> ls ]

\* new UserStateModel(data): of its fields the model keeps currentMood
UserStateModel(data) ==
    JsObject([currentMood |->
        IF Truthy(Get(data, "currentMood")) THEN Get(data, "currentMood")
        ELSE JsString("neutral")])

\* new UserProgressModel(data): of its fields the model keeps wellnessStreak
UserProgressModel(data) ==
    JsObject([wellnessStreak |->
        IF Truthy(Get(data, "wellnessStreak")) THEN Get(data, "wellnessStreak")
        ELSE JsNumber(0)])

\* new Date(v) for a Date or the ISO string of one
NewDate(v) == IF v.k = "Date" THEN v ELSE JsDate(v.iso)

\* the object saveSession serializes
sessionDataOf(cs) ==
    [ userState |-> cs.userState,
      userProgress |-> cs.userProgress,
      pendingRecommendations |-> cs.pendingRecommendations,
      sessionInfo |-> JsObject([ sessionId |-> cs.sessionId,
                                 startTime |-> cs.startTime,
                                 lastActivity |-> cs.lastActivity,
                                 settings |-> cs.sessionSettings ]) ]

\* A pending-sync entry.  entry.data.pendingRecommendations is the very array
\* object of the session (saveSession copies the reference): sharesArray says
\* that this array is still the live session's, so that a later push shows in
\* the entry.  enqueued is history: the payload as it stood at the save.
pendingEntry(cs, t) ==
    [ userId |-> cs.userId, data |-> sessionDataOf(cs), timestamp |-> JsDate(t),
      sharesArray |-> TRUE, enqueued |-> sessionDataOf(cs) ]

\* the session's array object is dropped or replaced: no entry can change any more
unshare(q) == [i \in DOMAIN q |-> [q[i] EXCEPT !.sharesArray = FALSE]]

\* Array.prototype.push on the session's array, seen through every reference
pushShared(q, rec) ==
    [i \in DOMAIN q |->
        IF q[i].sharesArray
        THEN [q[i] EXCEPT !.data["pendingRecommendations"] =
                              JsArray(Append(@.e, rec))]
        ELSE q[i]]

\* saveSession that, offline, only queues the payload
saveSession_QueueOnly(m, t) ==
    IF m.cs = Null THEN m
    ELSE
      Let(sessionDataOf(m.cs), LAMBDA sessionData :
      Let(storeUserData(m.st, m.cs.userId, sessionData, t), LAMBDA r :
          IF isOnline
          THEN [m EXCEPT !.st = r.ls]
          ELSE [m EXCEPT !.q = Append(@, pendingEntry(m.cs, t))]))

saveSession(m, t) ==
    IF m.cs = Null THEN m
    ELSE
      Let(sessionDataOf(m.cs), LAMBDA sessionData :
      Let(storeUserData(m.st, m.cs.userId, sessionData, t), LAMBDA r :
          IF isOnline
          THEN [m EXCEPT !.st = r.ls]
          ELSE [m EXCEPT !.q = Append(@, pendingEntry(m.cs, t)), !.st = r.ls]))

\* what the try block of saveSession throws: the error of storeUserData
saveSessionTry(m, t) ==
    IF m.cs = Null THEN NoError
    ELSE storeUserData(m.st, m.cs.userId, sessionDataOf(m.cs), t).err

\* saveSession whose catch block rethrows
saveSessionError_Rethrows(m, t) == saveSessionTry(m, t)

\* the error saveSession surfaces to its caller: its catch block logs whatever
\* the try block threw and returns
saveSessionError(m, t) ==
    LET caught == saveSessionTry(m, t)
    IN  IF caught # NoError THEN NoError ELSE NoError

stopAutoSave(m) == [m EXCEPT !.ast = Null]

startAutoSave(m) ==
    IF m.cs # Null
    THEN [m EXCEPT !.ast =
              [interval |-> Get(m.cs.sessionSettings, "autoSaveInterval").n]]
    ELSE m

stopSessionTimeout(m) == [m EXCEPT !.stt = Null]

startSessionTimeout(m, t) ==
    IF m.cs # Null
    THEN [m EXCEPT !.stt =
              [deadline |-> t + Get(m.cs.sessionSettings, "sessionTimeout").n]]
    ELSE m

\* endSession that discards the session and leaves its timers armed
endSession_KeepsTimers(m, t) ==
    IF m.cs = Null THEN m
    ELSE
      Let(saveSession(m, t), LAMBDA saved :
          [saved EXCEPT !.cs = Null, !.q = unshare(@)])

\* endSession that discards the session before its final save
endSession_ClearFirst(m, t) ==
    IF m.cs = Null THEN m
    ELSE
      Let([m EXCEPT !.cs = Null, !.q = unshare(@)], LAMBDA cleared :
          stopSessionTimeout(stopAutoSave(saveSession(cleared, t))))

endSession(m, t) ==
    IF m.cs = Null THEN m
    ELSE
      Let(saveSession(m, t), LAMBDA saved :
          [stopSessionTimeout(stopAutoSave(saved)) EXCEPT
              !.cs = Null, !.q = unshare(@)])

\* the error endSession surfaces: its catch block logs and returns as well
endSessionError(m, t) ==
    LET caught == IF m.cs = Null THEN NoError ELSE saveSessionError(m, t)
    IN  IF caught # NoError THEN NoError ELSE NoError

defaultSettings ==
    [ autoSave |-> JsBool(TRUE),
      autoSaveInterval |-> JsNumber(DefaultAutoSaveInterval),
      sessionTimeout |-> JsNumber(DefaultSessionTimeout),
      offlineMode |-> JsBool(~isOnline) ]

generateSessionId(n) == [k |-> "string", session |-> n]

\* Variant of startSession that does not end the session it finds
startSession_NoEnd(m, userId, settings, t, n) ==
    Let(m, LAMBDA ended :
    Let(retrieveUserData(ended.st, userId), LAMBDA userData :
    Let([ userId |-> userId,
          sessionId |-> generateSessionId(n),
          startTime |-> JsDate(t),
          lastActivity |-> JsDate(t),
          userState |-> UserStateModel(Get(userData, "userState")),
          userProgress |-> UserProgressModel(Get(userData, "userProgress")),
          pendingRecommendations |->
              IF Truthy(Get(userData, "pendingRecommendations"))
              THEN Get(userData, "pendingRecommendations") ELSE JsArray(<<>>),
          sessionSettings |-> JsObject(Merge(settings, defaultSettings)) ],
        LAMBDA session :
    Let([ended EXCEPT !.cs = session, !.q = unshare(@)], LAMBDA created :
    Let(IF Get(session.sessionSettings, "autoSave").b
        THEN startAutoSave(created) ELSE created, LAMBDA autoSaving :
    Let(startSessionTimeout(autoSaving, t), LAMBDA armed :
        saveSession(armed, t)))))))

\* startSession(userId, settings) at time t, n being the fresh part of the id
startSession(m, userId, settings, t, n) ==
    Let(IF m.cs # Null THEN endSession(m, t) ELSE m, LAMBDA ended :
    Let(retrieveUserData(ended.st, userId), LAMBDA userData :
    Let([ userId |-> userId,
          sessionId |-> generateSessionId(n),
          startTime |-> JsDate(t),
          lastActivity |-> JsDate(t),
          userState |-> UserStateModel(Get(userData, "userState")),
          userProgress |-> UserProgressModel(Get(userData, "userProgress")),
          pendingRecommendations |->
              IF Truthy(Get(userData, "pendingRecommendations"))
              THEN Get(userData, "pendingRecommendations") ELSE JsArray(<<>>),
          sessionSettings |-> JsObject(Merge(settings, defaultSettings)) ],
        LAMBDA session :
    Let([ended EXCEPT !.cs = session, !.q = unshare(@)], LAMBDA created :
    Let(IF Get(session.sessionSettings, "autoSave").b
        THEN startAutoSave(created) ELSE created, LAMBDA autoSaving :
    Let(startSessionTimeout(autoSaving, t), LAMBDA armed :
        saveSession(armed, t)))))))

\* the error startSession surfaces: whatever its try block throws (from the
\* ending of the session it finds, or from the initial save of the session it
\* leaves; whether a store write throws does not depend on the storage's
\* contents) is rethrown as StartError
startSessionError(m, userId, settings, t, n) ==
    LET caught ==
            IF m.cs # Null /\ endSessionError(m, t) # NoError
            THEN endSessionError(m, t)
            ELSE saveSessionError(startSession(m, userId, settings, t, n), t)
    IN  IF caught # NoError THEN StartError ELSE NoError

\* loadSession that restarts the clock of the session it restores
loadSession_FreshStart(m, userId, t) ==
    Let(retrieveUserData(m.st, userId), LAMBDA userData :
        IF ~Truthy(userData) \/ ~Truthy(Get(userData, "sessionInfo"))
        THEN [m |-> m, ret |-> Null]
        ELSE
          Let(Get(userData, "sessionInfo"), LAMBDA sessionInfo :
          Let([ userId |-> userId,
                sessionId |-> Get(sessionInfo, "sessionId"),
                startTime |-> JsDate(t),
                lastActivity |-> NewDate(Get(sessionInfo, "lastActivity")),
                userState |-> UserStateModel(Get(userData, "userState")),
                userProgress |-> UserProgressModel(Get(userData, "userProgress")),
                pendingRecommendations |->
                    IF Truthy(Get(userData, "pendingRecommendations"))
                    THEN Get(userData, "pendingRecommendations") ELSE JsArray(<<>>),
                sessionSettings |-> Get(sessionInfo, "settings") ],
              LAMBDA session :
          Let([m EXCEPT !.cs = session, !.q = unshare(@)], LAMBDA restored :
          Let(t - session.lastActivity.t, LAMBDA timeSinceLastActivity :
              IF timeSinceLastActivity > Get(session.sessionSettings, "sessionTimeout").n
              THEN [m |-> endSession(restored, t), ret |-> Null]
              ELSE
                Let(IF Get(session.sessionSettings, "autoSave").b
                    THEN startAutoSave(restored) ELSE restored, LAMBDA autoSaving :
                    [m |-> startSessionTimeout(autoSaving, t), ret |-> session]))))))

\* loadSession(userId) at time t: the manager it leaves and what it returns
loadSession(m, userId, t) ==
    Let(retrieveUserData(m.st, userId), LAMBDA userData :
        IF ~Truthy(userData) \/ ~Truthy(Get(userData, "sessionInfo"))
        THEN [m |-> m, ret |-> Null]
        ELSE
          Let(Get(userData, "sessionInfo"), LAMBDA sessionInfo :
          Let([ userId |-> userId,
                sessionId |-> Get(sessionInfo, "sessionId"),
                startTime |-> NewDate(Get(sessionInfo, "startTime")),
                lastActivity |-> NewDate(Get(sessionInfo, "lastActivity")),
                userState |-> UserStateModel(Get(userData, "userState")),
                userProgress |-> UserProgressModel(Get(userData, "userProgress")),
                pendingRecommendations |->
                    IF Truthy(Get(userData, "pendingRecommendations"))
                    THEN Get(userData, "pendingRecommendations") ELSE JsArray(<<>>),
                sessionSettings |-> Get(sessionInfo, "settings") ],
              LAMBDA session :
          Let([m EXCEPT !.cs = session, !.q = unshare(@)], LAMBDA restored :
          Let(t - session.lastActivity.t, LAMBDA timeSinceLastActivity :
              IF timeSinceLastActivity > Get(session.sessionSettings, "sessionTimeout").n
              THEN [m |-> endSession(restored, t), ret |-> Null]
              ELSE
                Let(IF Get(session.sessionSettings, "autoSave").b
                    THEN startAutoSave(restored) ELSE restored, LAMBDA autoSaving :
                    [m |-> startSessionTimeout(autoSaving, t), ret |-> session]))))))

\* updateLastActivity that leaves the idle timer's deadline where it was
updateLastActivity_FixedDeadline(m, t) ==
    IF m.cs # Null
    THEN [m EXCEPT !.cs.lastActivity = JsDate(t)]
    ELSE m

\* updateLastActivity that arms the idle timer whether or not a session is current
updateLastActivity_ArmsAlways(m, t) ==
    IF m.cs # Null
    THEN startSessionTimeout(
             stopSessionTimeout([m EXCEPT !.cs.lastActivity = JsDate(t)]), t)
    ELSE [m EXCEPT !.stt = [deadline |-> t]]

updateLastActivity(m, t) ==
    IF m.cs # Null
    THEN startSessionTimeout(
             stopSessionTimeout([m EXCEPT !.cs.lastActivity = JsDate(t)]), t)
    ELSE m

\* updateUserState(updates): Object.assign on the user state, then the touch
updateUserState(m, updates, t) ==
    IF m.cs = Null THEN [m |-> m, err |-> NoActiveSession]
    ELSE [m |-> updateLastActivity(
                    [m EXCEPT !.cs.userState = JsObject(Merge(updates, @.f))], t),
          err |-> NoError]

\* addPendingRecommendation without the call of updateLastActivity
addPendingRecommendation_NoTouch(m, recommendation, t) ==
    IF m.cs = Null THEN [m |-> m, err |-> NoActiveSession]
    ELSE [m |-> [m EXCEPT !.cs.pendingRecommendations =
                              JsArray(Append(@.e, recommendation)),
                          !.q = pushShared(@, recommendation)],
          err |-> NoError]

addPendingRecommendation(m, recommendation, t) ==
    IF m.cs = Null THEN [m |-> m, err |-> NoActiveSession]
    ELSE [m |-> updateLastActivity(
                    [m EXCEPT !.cs.pendingRecommendations =
                                  JsArray(Append(@.e, recommendation)),
                              !.q = pushShared(@, recommendation)], t),
          err |-> NoError]

\* Array.prototype.filter(rec => rec.id !== recommendationId): a new array
removePendingRecommendation(m, recommendationId, t) ==
    IF m.cs = Null THEN [m |-> m, err |-> NoActiveSession]
    ELSE [m |-> updateLastActivity(
                    [m EXCEPT !.cs.pendingRecommendations =
                                  JsArray(SelectSeq(@.e,
                                      LAMBDA rec : Get(rec, "id") # recommendationId)),
                              !.q = unshare(@)], t),
          err |-> NoError]

\* pauseSession that stops the idle timer as well
pauseSession_StopsBoth(m, t) ==
    saveSession(stopSessionTimeout(stopAutoSave(m)), t)

pauseSession(m, t) == saveSession(stopAutoSave(m), t)

resumeSession(m, t) ==
    LET autoSaving == IF m.cs # Null /\ Get(m.cs.sessionSettings, "autoSave").b
                      THEN startAutoSave(m) ELSE m
    IN  updateLastActivity(autoSaving, t)

\* handleSessionTimeout that saves but leaves the session current
handleSessionTimeout_SaveOnly(m, t) == saveSession(m, t)

handleSessionTimeout(m, t) == endSession(m, t)

\* the loop of syncPendingData over queue[i..]: the storage it leaves, and
\* whether a write threw
RECURSIVE drain(_, _, _, _)
drain(store, queue, i, t) ==
    IF i > Len(queue) THEN [ls |-> store, ok |-> TRUE]
    ELSE
      Let(storeUserData(store, queue[i].userId, queue[i].data, t), LAMBDA r :
          IF r.err # NoError THEN [ls |-> r.ls, ok |-> FALSE]
          ELSE drain(r.ls, queue, i + 1, t))

syncPendingData(m, t) ==
    IF Len(m.q) = 0 THEN m
    ELSE
      Let(drain(m.st, m.q, 1, t), LAMBDA r :
          IF r.ok THEN [m EXCEPT !.st = r.ls, !.q = <<>>]
          ELSE [m EXCEPT !.st = r.ls])

\* syncStep that, when a write fails, drops the entries already written
syncStep_DropsWritten(m, i, t) ==
    Let(storeUserData(m.st, m.q[i].userId, m.q[i].data, t), LAMBDA r :
        IF r.err # NoError
        THEN [ m |-> [m EXCEPT !.st = r.ls, !.q = SubSeq(@, i, Len(@))],
               pos |-> 0, ok |-> FALSE, err |-> NoError ]
        ELSE IF i = Len(m.q)
        THEN [ m |-> [m EXCEPT !.st = r.ls, !.q = <<>>],
               pos |-> 0, ok |-> TRUE, err |-> NoError ]
        ELSE [ m |-> [m EXCEPT !.st = r.ls],
               pos |-> i + 1, ok |-> TRUE, err |-> NoError ])

\* One iteration of the loop of syncPendingData, from one await to the next:
\* the write of entry i, then either the catch (the error is logged and not
\* rethrown, the queue stays), the end of the loop (the queue is replaced by
\* an empty one) or the suspension before entry i + 1.  pos is the entry to
\* write next, 0 when syncPendingData has returned; err is what it throws.
syncStep(m, i, t) ==
    Let(storeUserData(m.st, m.q[i].userId, m.q[i].data, t), LAMBDA r :
        IF r.err # NoError
        THEN [ m |-> [m EXCEPT !.st = r.ls],
               pos |-> 0, ok |-> FALSE, err |-> NoError ]
        ELSE IF i = Len(m.q)
        THEN [ m |-> [m EXCEPT !.st = r.ls, !.q = <<>>],
               pos |-> 0, ok |-> TRUE, err |-> NoError ]
        ELSE [ m |-> [m EXCEPT !.st = r.ls],
               pos |-> i + 1, ok |-> TRUE, err |-> NoError ])

\* resolveDataConflicts(localData, remoteData): "local" or "remote"
lastActivityOf(data) ==
    LET v == Get(Get(data, "sessionInfo"), "lastActivity")
    IN  IF Truthy(v) THEN NewDate(v) ELSE JsDate(0)

\* resolveDataConflicts that always returns the second candidate
resolveDataConflicts_AlwaysRemote(localData, remoteData) == remoteData

resolveDataConflicts(localData, remoteData) ==
    LET localTimestamp == lastActivityOf(localData)
        remoteTimestamp == lastActivityOf(remoteData)
    IN  IF localTimestamp.t > remoteTimestamp.t THEN localData ELSE remoteData

getCurrentSession == currentSession

\* getSessionAnalytics() at time t
getSessionAnalytics(m, t) ==
    IF m.cs = Null
    THEN [duration |-> 0, activityCount |-> 0, isActive |-> FALSE, timeUntilTimeout |-> 0]
    ELSE
      LET duration == t - m.cs.startTime.t
          timeSinceActivity == t - m.cs.lastActivity.t
          remaining == Get(m.cs.sessionSettings, "sessionTimeout").n - timeSinceActivity
          timeUntilTimeout == IF remaining > 0 THEN remaining ELSE 0
      IN  [ duration |-> duration, activityCount |-> 1,
            isActive |-> timeUntilTimeout > 0, timeUntilTimeout |-> timeUntilTimeout ]

-----------------------------------------------------------------------------
(* Inputs of the session operations *)

\* the settings overrides handed to startSession
SettingsOverrides ==
    { [sessionTimeout |-> JsNumber(1)],
      [autoSave |-> JsBool(FALSE), sessionTimeout |-> JsNumber(2)] }

\* the users of the session operations
SessionUsers == {"u1"}

StateUpdates == { [currentMood |-> JsString("excellent")] }

RecommendationIds == {"rec_1", "rec_2"}

Recommendations == { JsObject([id |-> JsString(i)]) : i \in RecommendationIds }

\* what a candidate of resolveDataConflicts holds under sessionInfo: nothing,
\* an object without lastActivity, or one whose lastActivity is a Date or the
\* ISO string of one
SessionInfos ==
    {EmptyMap, [sessionInfo |-> JsObject(EmptyMap)]}
        \cup { [sessionInfo |-> JsObject([lastActivity |-> v])] :
                 v \in {JsDate(t) : t \in 0..MaxTime}
                           \cup {IsoString(t) : t \in 0..MaxTime} }

\* the candidates handed to resolveDataConflicts
Candidates ==
    { JsObject(Merge(info, [userState |-> JsObject([currentMood |-> JsString(mood)])])) :
        info \in SessionInfos, mood \in {"good", "excellent"} }

-----------------------------------------------------------------------------
(* Calls on SessionManager, timers and host events *)

\* the manager and the storage become m
Becomes(m) ==
    /\ currentSession' = m.cs
    /\ autoSaveTimer' = m.ast
    /\ sessionTimeoutTimer' = m.stt
    /\ pendingSync' = m.q
    /\ ls' = m.st

\* the bounds of the model hold of m
WithinBounds(m) ==
    /\ Len(m.q) <= MaxQueue
    /\ m.cs # Null => Len(m.cs.pendingRecommendations.e) <= MaxPending

UserOf(cs) == IF cs = Null THEN "" ELSE cs.userId

StartSession(userId, settings) ==
    LET m == startSession(Manager, userId, settings, now, sessionCount + 1)
    IN  /\ sessionCount < MaxSessions
        /\ WithinBounds(m)
        /\ Becomes(m)
        /\ sessionCount' = sessionCount + 1
        /\ Called("startSession", userId,
                  startSessionError(Manager, userId, settings, now, sessionCount + 1))
        /\ UNCHANGED <<available, now, isOnline, navigatorOnLine, drainPos>>

EndSession ==
    LET m == endSession(Manager, now)
    IN  /\ WithinBounds(m)
        /\ Becomes(m)
        /\ Called("endSession", UserOf(currentSession), endSessionError(Manager, now))
        /\ UNCHANGED <<available, now, isOnline, navigatorOnLine, sessionCount, drainPos>>

SaveSession ==
    LET m == saveSession(Manager, now)
    IN  /\ WithinBounds(m)
        /\ Becomes(m)
        /\ Called("saveSession", UserOf(currentSession), saveSessionError(Manager, now))
        /\ UNCHANGED <<available, now, isOnline, navigatorOnLine, sessionCount, drainPos>>

LoadSession(userId) ==
    LET r == loadSession(Manager, userId, now)
    IN  /\ WithinBounds(r.m)
        /\ Becomes(r.m)
        /\ CalledWith("loadSession", userId, NoError, r.ret)
        /\ UNCHANGED <<available, now, isOnline, navigatorOnLine, sessionCount, drainPos>>

UpdateUserState(updates) ==
    LET r == updateUserState(Manager, updates, now)
    IN  /\ Becomes(r.m)
        /\ Called("updateUserState", UserOf(currentSession), r.err)
        /\ UNCHANGED <<available, now, isOnline, navigatorOnLine, sessionCount, drainPos>>

AddPendingRecommendation(recommendation) ==
    LET r == addPendingRecommendation(Manager, recommendation, now)
    IN  /\ WithinBounds(r.m)
        /\ Becomes(r.m)
        /\ Called("addPendingRecommendation", UserOf(currentSession), r.err)
        /\ UNCHANGED <<available, now, isOnline, navigatorOnLine, sessionCount, drainPos>>

RemovePendingRecommendation(recommendationId) ==
    LET r == removePendingRecommendation(Manager, recommendationId, now)
    IN  /\ Becomes(r.m)
        /\ Called("removePendingRecommendation", UserOf(currentSession), r.err)
        /\ UNCHANGED <<available, now, isOnline, navigatorOnLine, sessionCount, drainPos>>

\* mousedown, mousemove, keypress, scroll, touchstart
ActivityEvent ==
    /\ Becomes(updateLastActivity(Manager, now))
    /\ Called("updateLastActivity", UserOf(currentSession), NoError)
    /\ UNCHANGED <<available, now, isOnline, navigatorOnLine, sessionCount, drainPos>>

\* visibilitychange with document.hidden
VisibilityHidden ==
    LET m == pauseSession(Manager, now)
    IN  /\ WithinBounds(m)
        /\ Becomes(m)
        /\ Called("pauseSession", UserOf(currentSession), NoError)
        /\ UNCHANGED <<available, now, isOnline, navigatorOnLine, sessionCount, drainPos>>

\* visibilitychange with the document visible again
VisibilityVisible ==
    /\ Becomes(resumeSession(Manager, now))
    /\ Called("resumeSession", UserOf(currentSession), NoError)
    /\ UNCHANGED <<available, now, isOnline, navigatorOnLine, sessionCount, drainPos>>

BeforeUnload ==
    LET m == saveSession(Manager, now)
    IN  /\ WithinBounds(m)
        /\ Becomes(m)
        /\ Called("saveSession", UserOf(currentSession), saveSessionError(Manager, now))
        /\ UNCHANGED <<available, now, isOnline, navigatorOnLine, sessionCount, drainPos>>

\* the setInterval callback of startAutoSave (the model lets it fire at any
\* time while armed)
AutoSaveFire ==
    LET m == saveSession(Manager, now)
    IN  /\ autoSaveTimer # Null
        /\ WithinBounds(m)
        /\ Becomes(m)
        /\ Called("saveSession", UserOf(currentSession), saveSessionError(Manager, now))
        /\ UNCHANGED <<available, now, isOnline, navigatorOnLine, sessionCount, drainPos>>

\* the setTimeout callback of startSessionTimeout: not before its deadline
SessionTimeoutFire ==
    LET m == handleSessionTimeout(Manager, now)
    IN  /\ sessionTimeoutTimer # Null
        /\ now >= sessionTimeoutTimer.deadline
        /\ WithinBounds(m)
        /\ Becomes(m)
        /\ CalledWith("sessionTimeout", UserOf(currentSession), NoError,
                      IF currentSession = Null THEN Null
                      ELSE [ lastActivity |-> currentSession.lastActivity.t,
                             sessionTimeout |->
                               Get(currentSession.sessionSettings, "sessionTimeout").n ])
        /\ UNCHANGED <<available, now, isOnline, navigatorOnLine, sessionCount, drainPos>>

\* the window's online event; the call record keeps the user and the payload,
\* as it stood at its save, of the entry enqueued last
Online ==
    /\ navigatorOnLine /\ ~isOnline
    /\ isOnline' = TRUE
    /\ Becomes(syncPendingData(Manager, now))
    /\ CalledWith("online", "", NoError,
                  IF pendingSync = <<>> THEN Null
                  ELSE [ userId |-> pendingSync[Len(pendingSync)].userId,
                         enqueued |-> pendingSync[Len(pendingSync)].enqueued ])
    /\ UNCHANGED <<available, now, navigatorOnLine, sessionCount, drainPos>>

\* the window's offline event
Offline ==
    /\ ~navigatorOnLine /\ isOnline
    /\ isOnline' = FALSE
    /\ Called("offline", "", NoError)
    /\ UNCHANGED <<ls, available, now, currentSession, autoSaveTimer,
                   sessionTimeoutTimer, navigatorOnLine, pendingSync, sessionCount, drainPos>>

\* the host loses or regains its connection: navigator.onLine changes at once,
\* the online or offline event is delivered to the listener later (one event
\* is in flight at a time)
ConnectivityChange ==
    /\ navigatorOnLine = isOnline
    /\ navigatorOnLine' = ~navigatorOnLine
    /\ UNCHANGED <<ls, available, now, last, currentSession, autoSaveTimer,
                   sessionTimeoutTimer, isOnline, pendingSync, sessionCount, drainPos>>

\* The window's online event with syncPendingData followed await by await:
\* the listener sets the flag and calls syncPendingData, which runs up to its
\* first await (the first write is made inside the call).  The call record
\* keeps the queue the step found, the entry it wrote and whether the write
\* succeeded.
OnlineBegin ==
    /\ navigatorOnLine /\ ~isOnline
    /\ drainPos = 0
    /\ isOnline' = TRUE
    /\ IF pendingSync = <<>>
       THEN /\ Called("online", "", NoError)
            /\ UNCHANGED <<ls, currentSession, autoSaveTimer, sessionTimeoutTimer,
                           pendingSync, drainPos>>
       ELSE LET r == syncStep(Manager, 1, now)
            IN  /\ Becomes(r.m)
                /\ drainPos' = r.pos
                /\ CalledWith("syncStep", "", r.err,
                              [queue |-> pendingSync, pos |-> 1, ok |-> r.ok])
    /\ UNCHANGED <<available, now, navigatorOnLine, sessionCount>>

\* syncPendingData resumes after an await and writes its next entry
DrainStep ==
    /\ drainPos # 0
    /\ LET r == syncStep(Manager, drainPos, now)
       IN  /\ Becomes(r.m)
           /\ drainPos' = r.pos
           /\ CalledWith("syncStep", "", r.err,
                         [queue |-> pendingSync, pos |-> drainPos, ok |-> r.ok])
    /\ UNCHANGED <<available, now, isOnline, navigatorOnLine, sessionCount>>

\* resolveDataConflicts(localData, remoteData) called by a client of the manager
ResolveDataConflicts ==
    /\ last.op = "candidates"
    /\ CalledWith("resolveDataConflicts", "", NoError,
                  [ localData |-> last.arg.localData,
                    remoteData |-> last.arg.remoteData,
                    result |-> resolveDataConflicts(last.arg.localData,
                                                    last.arg.remoteData) ])
    /\ UNCHANGED <<ls, available, now, sessionVars>>

-----------------------------------------------------------------------------
(* Specifications of the session manager.  The storage medium accepts every  *)
(* write in them (available stays TRUE).                                     *)

InitOnline == Init /\ isOnline

\* the life of sessions on a connected host: start, end, save, load, state
\* updates, activity, visibility changes, unload, and the two timers
NextLifecycle ==
    \/ Tick(MaxTime)
    \/ \E userId \in SessionUsers, settings \in SettingsOverrides :
            StartSession(userId, settings)
    \/ EndSession
    \/ SaveSession
    \/ \E userId \in SessionUsers : LoadSession(userId)
    \/ \E updates \in StateUpdates : UpdateUserState(updates)
    \/ ActivityEvent
    \/ VisibilityHidden
    \/ VisibilityVisible
    \/ BeforeUnload
    \/ AutoSaveFire
    \/ SessionTimeoutFire

SpecLifecycle == InitOnline /\ [][NextLifecycle]_vars

\* the pending recommendations of sessions on a connected host
NextPending ==
    \/ Tick(MaxTime)
    \/ \E userId \in SessionUsers, settings \in SettingsOverrides :
            StartSession(userId, settings)
    \/ EndSession
    \/ \E recommendation \in Recommendations :
            AddPendingRecommendation(recommendation)
    \/ \E recommendationId \in RecommendationIds :
            RemovePendingRecommendation(JsString(recommendationId))
    \/ ActivityEvent
    \/ SessionTimeoutFire

SpecPending == InitOnline /\ [][NextPending]_vars

\* saves and pending recommendations while the host goes offline and online
\* (the clock stands still)
NextOffline ==
    \/ \E userId \in SessionUsers, settings \in SettingsOverrides :
            StartSession(userId, settings)
    \/ EndSession
    \/ SaveSession
    \/ \E recommendation \in Recommendations :
            AddPendingRecommendation(recommendation)
    \/ ConnectivityChange
    \/ Online
    \/ Offline

SpecOffline == Init /\ [][NextOffline]_vars

\* sessions of two users started one after the other on a connected host
\* (the clock stands still)
NextSwitch ==
    \/ \E userId \in Users, settings \in SettingsOverrides :
            StartSession(userId, settings)
    \/ \E updates \in StateUpdates : UpdateUserState(updates)
    \/ AddPendingRecommendation(JsObject([id |-> JsString("rec_1")]))

SpecSwitch == InitOnline /\ [][NextSwitch]_vars

\* sessions that are updated, saved, ended and loaded again on a connected
\* host
NextResume ==
    \/ Tick(MaxTime)
    \/ \E userId \in SessionUsers, settings \in SettingsOverrides :
            StartSession(userId, settings)
    \/ EndSession
    \/ SaveSession
    \/ \E userId \in SessionUsers : LoadSession(userId)
    \/ \E updates \in StateUpdates : UpdateUserState(updates)
    \/ AddPendingRecommendation(JsObject([id |-> JsString("rec_1")]))

SpecResume == InitOnline /\ [][NextResume]_vars

\* sessions on a medium that starts and stops accepting writes, on a host
\* that is online or offline throughout (the clock stands still)
NextFaulty ==
    \/ MediumChange
    \/ \E userId \in SessionUsers, settings \in SettingsOverrides :
            StartSession(userId, settings)
    \/ EndSession
    \/ SaveSession
    \/ AutoSaveFire
    \/ \E updates \in StateUpdates : UpdateUserState(updates)

SpecFaulty == Init /\ [][NextFaulty]_vars

\* The reconnect drain followed await by await (the clock stands still).
\* While the drain is suspended only what can run before it resumes is
\* enabled: synchronous calls of the code that dispatched the online event
\* (saveSession, updateUserState), a change of the host's connectivity, and
\* a change of the medium, which other tabs share.
NextDrain ==
    \/ /\ drainPos = 0
       /\ \E userId \in SessionUsers :
              StartSession(userId, [autoSave |-> JsBool(FALSE)])
    \/ drainPos = 0 /\ EndSession
    \/ SaveSession
    \/ drainPos = 0 /\ \E userId \in SessionUsers : DeleteUserData(userId)
    \/ \E updates \in StateUpdates : UpdateUserState(updates)
    \/ MediumChange
    \/ ConnectivityChange
    \/ drainPos = 0 /\ Offline
    \/ OnlineBegin
    \/ DrainStep

SpecDrain == Init /\ [][NextDrain]_vars

\* the conflict resolver applied to every pair of candidates
InitResolve ==
    /\ ls = (foreignKey :> JsString("good"))
    /\ available = TRUE
    /\ now = 0
    /\ currentSession = Null
    /\ autoSaveTimer = Null
    /\ sessionTimeoutTimer = Null
    /\ navigatorOnLine = TRUE
    /\ isOnline = TRUE
    /\ pendingSync = <<>>
    /\ sessionCount = 0
    /\ drainPos = 0
    /\ \E localData \in Candidates, remoteData \in Candidates :
          last = [ op |-> "candidates", userId |-> "", err |-> NoError,
                   arg |-> [localData |-> localData, remoteData |-> remoteData] ]

NextResolve == ResolveDataConflicts

SpecResolve == InitResolve /\ [][NextResolve]_vars

-----------------------------------------------------------------------------
(* Claims on LocalStorageService, checked under SpecStore *)

DataTypes == {"regular", "sensitive", "meta"}

\* the field mappings of Data, and each of them with a key named _metadata
\* added (as in a record that retrieveUserData returned)
RoundTripData ==
    Data \cup {Merge([_metadata |-> JsString("good")], d) : d \in Data}

\* the names of d that a retrieve can give back: `_metadata` is overwritten by
\* the metadata entry, and JSON.stringify drops an undefined property
KeptNames(d) == {n \in DOMAIN d \ {"_metadata"} : d[n].k # "undefined"}

\* a retrieve result with metadata.lastUpdated removed
WithoutTimestamp(r) ==
    IF r = Null THEN Null
    ELSE JsObject([n \in DOMAIN r.f |->
            IF n = "_metadata" /\ r.f[n].k = "object"
            THEN JsObject(Restrict(r.f[n].f, DOMAIN r.f[n].f \ {"lastUpdated"}))
            ELSE r.f[n]])

\* C1 as stated: after every successful storeUserData(u, d), retrieveUserData(u)
\* is a mapping holding every key of d with the value given, and a truthy
\* _metadata.  (Fails for the empty d, for a Date or undefined value, and for
\* a key named _metadata.)
C1_RoundTripAsStated ==
    \A u \in Users, d \in RoundTripData :
        LET s == storeUserData(ls, u, d, now)
            r == retrieveUserData(s.ls, u)
        IN  s.err = NoError =>
              /\ r # Null
              /\ \A n \in DOMAIN d : n \in DOMAIN r.f /\ r.f[n] = d[n]
              /\ Truthy(r.f["_metadata"])

\* C1 amended: after every successful storeUserData(u, d) where d has a key
\* other than _metadata whose value is not undefined, retrieveUserData(u) is a
\* mapping holding every such key with the JSON round trip of the value given
\* (the value itself when JSON preserves it), and a truthy _metadata, whether
\* the key is regular or sensitive.
C1_RoundTrip ==
    \A u \in Users, d \in RoundTripData :
        LET s == storeUserData(ls, u, d, now)
            r == retrieveUserData(s.ls, u)
        IN  (s.err = NoError /\ KeptNames(d) # {}) =>
              /\ r # Null
              /\ \A n \in KeptNames(d) :
                    /\ n \in DOMAIN r.f
                    /\ r.f[n] = Serialized(d[n])
                    /\ (Serialized(d[n]) = d[n] => r.f[n] = d[n])
              /\ Truthy(r.f["_metadata"])

\* a successful store has left a regular and a sensitive key that retrieve returns
C1_Witness ==
    /\ last.op = "storeUserData" /\ last.err = NoError
    /\ LET r == retrieveUserData(ls, last.userId)
       IN  /\ r # Null
           /\ {"mood", "Email"} \subseteq DOMAIN r.f
           /\ r.f["Email"] = JsString("good")
           /\ Truthy(r.f["_metadata"])

\* C2 as stated: right after deleteUserData(u), retrieveUserData(u) is null and
\* none of the regular, sensitive or meta keys of u remains.  (Fails when the
\* medium refuses the probe write: deleteUserData returns without removing.)
C2_DeleteLeavesNothing ==
    last.op = "deleteUserData" =>
        /\ retrieveUserData(ls, last.userId) = Null
        /\ \A type \in DataTypes : getStorageKey(last.userId, type) \notin DOMAIN ls

\* C25 as stated: deleteUserData(u) leaves retrieveUserData(v) as it was for
\* every other user v.  (Fails when u is part of the id of v: the cleanup
\* removes every key of the service that contains u.)
C25_DeleteSparesOtherUsers ==
    \A u \in Users, v \in Users :
        u # v =>
            retrieveUserData(deleteUserData(ls, u), v) = retrieveUserData(ls, v)

\* the two storages agree at the key: both lack it or both hold the same text
SameAt(s1, s2, key) ==
    /\ key \in DOMAIN s1 <=> key \in DOMAIN s2
    /\ key \in DOMAIN s1 => s1[key] = s2[key]

\* C30: storeUserData(u, d) changes no key but the regular, sensitive and
\* meta keys of u; when it succeeds, the regular (sensitive) key holds the
\* regular (sensitive) fields of d if d has any and is as it was if d has
\* none, in which case retrieveUserData(u) still returns the fields it
\* returned from that partition; and the meta key holds the metadata of this
\* store.
C30_StoreWritesNonEmptyPartitions ==
    \A u \in Users, d \in Data :
        LET r == storeUserData(ls, u, d, now)
            sep == separateData(d)
            regularKey == getStorageKey(u, "regular")
            sensitiveKey == getStorageKey(u, "sensitive")
            metaKey == getStorageKey(u, "meta")
            before == retrieveUserData(ls, u)
            after == retrieveUserData(r.ls, u)
            kept == IF before = Null THEN {}
                    ELSE {n \in DOMAIN before.f \ {"_metadata"} :
                            IF n \in sensitiveFields \/ isSensitiveField(n)
                            THEN DOMAIN sep.sensitiveData = {}
                            ELSE DOMAIN sep.regularData = {}}
        IN  /\ \A key \in (DOMAIN ls \cup DOMAIN r.ls)
                            \ {regularKey, sensitiveKey, metaKey} :
                  SameAt(r.ls, ls, key)
            /\ r.err = NoError =>
                  /\ IF DOMAIN sep.regularData = {}
                     THEN SameAt(r.ls, ls, regularKey)
                     ELSE r.ls[regularKey] = JSONstringify(JsObject(sep.regularData))
                  /\ IF DOMAIN sep.sensitiveData = {}
                     THEN SameAt(r.ls, ls, sensitiveKey)
                     ELSE r.ls[sensitiveKey] = encryptSensitiveData(sep.sensitiveData).value
                  /\ r.ls[metaKey] = JSONstringify(metadataOf(u, now))
                  /\ \A n \in kept : after # Null /\ n \in DOMAIN after.f
                                        /\ after.f[n] = before.f[n]

\* u1 has both partitions stored, after a store that succeeded; a store of a
\* mood alone then rewrites the regular key, leaves the sensitive key, and
\* retrieveUserData still returns the Email stored before
C30_Witness ==
    /\ last.op = "storeUserData" /\ last.userId = "u1" /\ last.err = NoError
    /\ available
    /\ getStorageKey("u1", "regular") \in DOMAIN ls
    /\ getStorageKey("u1", "sensitive") \in DOMAIN ls
    /\ LET r == storeUserData(ls, "u1", [mood |-> JsDate(0)], now)
       IN  /\ r.err = NoError
           /\ r.ls[getStorageKey("u1", "regular")] # ls[getStorageKey("u1", "regular")]
           /\ r.ls[getStorageKey("u1", "sensitive")]
                = ls[getStorageKey("u1", "sensitive")]
           /\ retrieveUserData(r.ls, "u1").f["Email"] = JsString("good")

\* C3: from every reachable storage state, a second storeUserData(u, d) with
\* the same d (at the same or a later time) leaves retrieveUserData(u) as the
\* first call left it, but for metadata.lastUpdated.
C3_StoreIdempotent ==
    \A u \in Users, d \in RoundTripData, t \in now..MaxStoreTime :
        LET first == storeUserData(ls, u, d, now)
            second == storeUserData(first.ls, u, d, t)
        IN  /\ second.err = first.err
            /\ WithoutTimestamp(retrieveUserData(second.ls, u))
                 = WithoutTimestamp(retrieveUserData(first.ls, u))

\* a store has succeeded earlier, and storing some d again now changes the
\* storage (the timestamp) but not what retrieve returns otherwise
C3_Witness ==
    /\ last.op = "storeUserData" /\ last.err = NoError
    /\ \E d \in Data :
         LET again == storeUserData(ls, last.userId, d, now)
         IN  /\ DOMAIN d = {"mood", "Email"}
             /\ again.err = NoError
             /\ again.ls # ls
             /\ retrieveUserData(ls, last.userId) # Null
             /\ WithoutTimestamp(retrieveUserData(again.ls, last.userId))
                  = WithoutTimestamp(retrieveUserData(ls, last.userId))

\* C11: whenever exportUserData(u) succeeds, its text parses to an envelope
\* whose userId is u, whose version is "1.0" and whose data is the record
\* retrieveUserData(u) returns without _metadata; and importing that text for
\* a user v without stored data succeeds and makes retrieveUserData(v) return
\* every field of the exported data with the same value.
C11_ExportImportRoundTrip ==
    \A u \in Users, v \in Users :
        LET e == exportUserData(ls, u, now)
            record == retrieveUserData(ls, u)
        IN  e.err = NoError =>
              LET envelope == JSONparse(e.text)
                  data == Get(envelope, "data")
              IN  /\ record # Null
                  /\ Get(envelope, "userId") = JsString(u)
                  /\ Get(envelope, "version") = JsString("1.0")
                  /\ data = JsObject(Restrict(record.f, DOMAIN record.f \ {"_metadata"}))
                  /\ retrieveUserData(ls, v) = Null =>
                        LET r == importUserData(ls, v, e.text, now)
                            got == retrieveUserData(r.ls, v)
                        IN  /\ r.err = NoError
                            /\ got # Null
                            /\ \A n \in DOMAIN data.f :
                                  n \in DOMAIN got.f /\ got.f[n] = data.f[n]

\* an export has just succeeded for a user whose record holds a regular and a
\* sensitive field, another user has no stored data, and importing the
\* exported text for that user gives it both fields
C11_Witness ==
    /\ last.op = "exportUserData" /\ last.err = NoError
    /\ \E v \in Users \ {last.userId} :
          LET e == exportUserData(ls, last.userId, now)
              got == retrieveUserData(importUserData(ls, v, e.text, now).ls, v)
          IN  /\ retrieveUserData(ls, v) = Null
              /\ got # Null
              /\ {"mood", "Email"} \subseteq DOMAIN got.f
              /\ got.f["Email"] = JsString("good")

\* C12 as stated: encryptSensitiveData returns a blob for every field mapping
\* x, and decryptSensitiveData of that blob is x.  (encryptSensitiveData throws
\* on a mapping whose JSON text holds a character above U+00FF; a Date comes
\* back as a string and an undefined field is dropped.)
C12_EncryptionRoundTrip ==
    /\ last.op = "encryptSensitiveData" => last.err = NoError
    /\ last.op = "decryptSensitiveData" => last.arg.decrypted = last.arg.data

\* the envelope text lacks data, userId or version (or holds no envelope at all)
LacksMandatoryField(text) ==
    \/ ~IsJSONText(text)
    \/ JSONparse(text).k # "object"
    \/ \E n \in {"data", "userId", "version"} : n \notin DOMAIN JSONparse(text).f

\* C10: importUserData(u, envelope) with data, userId or version missing throws
\* and leaves every storage key as it was.
C10_InvalidImportRejected ==
    \A u \in Users, text \in ImportTexts :
        LacksMandatoryField(text) =>
            LET r == importUserData(ls, u, text, now)
            IN  r.err = ImportError /\ r.ls = ls

\* an import has just been refused on a writable medium that holds user data
C10_Witness ==
    /\ last.op = "importUserData" /\ last.err = ImportError
    /\ available
    /\ \E u \in Users : retrieveUserData(ls, u) # Null

-----------------------------------------------------------------------------
(* Claims on SessionManager *)

\* the idle timeout of a session
TimeoutOf(cs) == Get(cs.sessionSettings, "sessionTimeout").n

\* C4: while a session is current its idle timer is armed and due no later
\* than one idle timeout from now; when the idle timer has fired the manager
\* has no current session and no timer; and once the session that timed out
\* has been idle for longer than its timeout, loadSession for its user returns
\* null and leaves the manager without a session.
C4_IdleTimeout ==
    /\ currentSession # Null =>
          /\ sessionTimeoutTimer # Null
          /\ sessionTimeoutTimer.deadline <= now + TimeoutOf(currentSession)
    /\ last.op = "sessionTimeout" =>
          /\ getCurrentSession = Null
          /\ autoSaveTimer = Null /\ sessionTimeoutTimer = Null
          /\ last.arg # Null
          /\ now - last.arg.lastActivity > last.arg.sessionTimeout =>
                LET r == loadSession(Manager, last.userId, now)
                IN  r.ret = Null /\ r.m.cs = Null /\ r.m.stt = Null

\* the idle timer has fired on a session idle for longer than its timeout, and
\* the record of that session is in the storage for loadSession to find
C4_Witness ==
    /\ last.op = "sessionTimeout" /\ last.arg # Null
    /\ now - last.arg.lastActivity > last.arg.sessionTimeout
    /\ currentSession = Null
    /\ Truthy(Get(retrieveUserData(ls, last.userId), "sessionInfo"))
    /\ loadSession(Manager, last.userId, now).ret = Null

\* the record retrieveUserData returns for the user, without _metadata
StoredRecord(store, userId) ==
    LET r == retrieveUserData(store, userId)
    IN  IF r = Null THEN Null ELSE Restrict(r.f, DOMAIN r.f \ {"_metadata"})

\* the payload saveSession writes for the session, as JSON stores it
PayloadOf(cs) == Serialized(JsObject(sessionDataOf(cs))).f

\* C13: startSession(u, settings) called while a session is current leaves
\* one session, which has user id u and the newly generated session id; the
\* timers are those of the new session alone (auto-save armed only if the new
\* session enables it, the idle timer due one new timeout from now); and the
\* previous session's final state was saved under its own user id first: it
\* is the stored record of the previous user, or, when u is the previous
\* user, the state the new session starts from.
C13_StartEndsPrevious ==
    currentSession # Null =>
        \A u \in Users, settings \in SettingsOverrides :
            LET previous == currentSession
                m == startSession(Manager, u, settings, now, sessionCount + 1)
            IN  /\ m.cs # Null
                /\ m.cs.userId = u
                /\ m.cs.sessionId = generateSessionId(sessionCount + 1)
                /\ m.cs.sessionId # previous.sessionId
                /\ m.stt = [deadline |-> now + TimeoutOf(m.cs)]
                /\ m.ast # Null <=> Get(m.cs.sessionSettings, "autoSave").b
                /\ IF u # previous.userId
                   THEN StoredRecord(m.st, previous.userId) = PayloadOf(previous)
                   ELSE /\ m.cs.userState = Serialized(previous.userState)
                        /\ m.cs.pendingRecommendations
                             = Serialized(previous.pendingRecommendations)

\* a session of u12 has just been started over a session of u1 whose state had
\* been updated and never saved: the stored record of u1 holds that state
C13_Witness ==
    /\ last.op = "startSession" /\ last.userId = "u12"
    /\ currentSession # Null /\ currentSession.userId = "u12"
    /\ sessionCount >= 2
    /\ StoredRecord(ls, "u1") # Null
    /\ Get(StoredRecord(ls, "u1")["userState"], "currentMood") = JsString("excellent")

\* C14: ending the current session, by endSession or by the idle timer's
\* handler, saves before it clears: the manager is left without a session and
\* the stored record of the session's user is the payload of the session as
\* it stood in memory at the call; and after either ending the manager has no
\* session and the user's record is in the storage.
C14_SaveBeforeClear ==
    /\ currentSession # Null =>
          /\ LET m == endSession(Manager, now)
             IN  /\ m.cs = Null
                 /\ StoredRecord(m.st, currentSession.userId)
                      = PayloadOf(currentSession)
          /\ LET m == handleSessionTimeout(Manager, now)
             IN  /\ m.cs = Null
                 /\ StoredRecord(m.st, currentSession.userId)
                      = PayloadOf(currentSession)
    /\ (last.op \in {"endSession", "sessionTimeout"} /\ last.userId # "") =>
          /\ currentSession = Null
          /\ StoredRecord(ls, last.userId) # Null

\* the idle timer has ended a session whose state was updated after its start:
\* the stored record holds the updated mood and the time of that update
C14_Witness ==
    /\ last.op = "sessionTimeout" /\ last.userId = "u1"
    /\ currentSession = Null
    /\ StoredRecord(ls, "u1") # Null
    /\ LET r == StoredRecord(ls, "u1")
       IN  /\ Get(r["userState"], "currentMood") = JsString("excellent")
           /\ Get(r["sessionInfo"], "lastActivity").iso
                > Get(r["sessionInfo"], "startTime").iso

\* C15: whenever the manager has no current session, neither the auto-save
\* timer nor the idle timer is armed, and endSession changes nothing; hence
\* the idle timer's handler only ever runs on a current session.
C15_NoTimerWithoutSession ==
    /\ currentSession = Null =>
          /\ autoSaveTimer = Null
          /\ sessionTimeoutTimer = Null
          /\ endSession(Manager, now) = Manager
    /\ last.op = "sessionTimeout" => last.userId # ""

\* endSession has just ended a session that had auto-save enabled, after the
\* manager had started two sessions: no session, no timer
C15_Witness ==
    /\ last.op = "endSession" /\ last.userId = "u1"
    /\ sessionCount = 2
    /\ currentSession = Null
    /\ autoSaveTimer = Null /\ sessionTimeoutTimer = Null
    /\ StoredRecord(ls, "u1") # Null
    /\ Get(Get(StoredRecord(ls, "u1")["sessionInfo"], "settings"), "autoSave")
         = JsBool(TRUE)

\* C16: saveSession of a current session leaves the session's payload as the
\* stored record of its user, and while the manager is offline it also appends
\* that payload, under the user's id, to the pending-sync queue (online the
\* queue is left alone); and whenever the manager is offline with a non-empty
\* queue, retrieveUserData for the user of the entry queued last returns, but
\* for _metadata, the payload of that save as it stood at the save.
C16_OfflineSaveAlsoStores ==
    /\ currentSession # Null =>
          LET m == saveSession(Manager, now)
          IN  /\ StoredRecord(m.st, currentSession.userId) = PayloadOf(currentSession)
              /\ IF isOnline THEN m.q = pendingSync
                 ELSE /\ Len(m.q) = Len(pendingSync) + 1
                      /\ SubSeq(m.q, 1, Len(pendingSync)) = pendingSync
                      /\ m.q[Len(m.q)].userId = currentSession.userId
                      /\ m.q[Len(m.q)].data = sessionDataOf(currentSession)
    /\ (~isOnline /\ pendingSync # <<>>) =>
          LET latest == pendingSync[Len(pendingSync)]
          IN  StoredRecord(ls, latest.userId)
                = Serialized(JsObject(latest.enqueued)).f

\* offline, a second save has queued a payload that differs from the one
\* queued first, and the stored record is the second
C16_Witness ==
    /\ ~isOnline /\ ~navigatorOnLine
    /\ last.op = "saveSession" /\ last.userId = "u1"
    /\ Len(pendingSync) = 2
    /\ pendingSync[1].enqueued # pendingSync[2].enqueued
    /\ StoredRecord(ls, "u1") = Serialized(JsObject(pendingSync[2].enqueued)).f
    /\ StoredRecord(ls, "u1") # Serialized(JsObject(pendingSync[1].enqueued)).f

\* C17: whether or not the medium accepts writes, saveSession, endSession and
\* startSession surface no error (the auto-save callback is a call of
\* saveSession); saveSession leaves the in-memory session and both timers as
\* they were, and the storage too when the write fails; without a current
\* session it changes nothing, the storage and the pending-sync queue
\* included; and on a medium that refuses writes endSession still leaves no
\* session and startSession still leaves a session of its user.
C17_SaveFailureSwallowed ==
    /\ saveSessionError(Manager, now) = NoError
    /\ endSessionError(Manager, now) = NoError
    /\ last.op \in {"saveSession", "endSession", "startSession"} =>
          last.err = NoError
    /\ LET m == saveSession(Manager, now)
       IN  /\ m.cs = currentSession
           /\ m.ast = autoSaveTimer
           /\ m.stt = sessionTimeoutTimer
           /\ saveSessionTry(Manager, now) # NoError => m.st = ls
           /\ currentSession = Null => m = Manager
    /\ endSession(Manager, now).cs = Null
    /\ \A u \in SessionUsers, settings \in SettingsOverrides :
          LET n == sessionCount + 1
          IN  /\ startSessionError(Manager, u, settings, now, n) = NoError
              /\ startSession(Manager, u, settings, now, n).cs # Null
              /\ startSession(Manager, u, settings, now, n).cs.userId = u

\* a save has just returned normally although its write was refused: the
\* session holds the updated mood and the storage still holds an older payload
C17_Witness ==
    /\ ~available
    /\ last.op = "saveSession" /\ last.userId = "u1" /\ last.err = NoError
    /\ saveSessionTry(Manager, now) = StoreError
    /\ currentSession # Null
    /\ Get(currentSession.userState, "currentMood") = JsString("excellent")
    /\ getStorageKey("u1", "regular") \in DOMAIN ls
    /\ ls[getStorageKey("u1", "regular")]
         # JSONstringify(JsObject(sessionDataOf(currentSession)))

\* the time elapsed since the last activity stored for the user, and the idle
\* timeout stored with it
StoredIdle(store, userId) ==
    now - NewDate(Get(StoredRecord(store, userId)["sessionInfo"], "lastActivity")).t

StoredTimeout(store, userId) ==
    Get(Get(StoredRecord(store, userId)["sessionInfo"], "settings"), "sessionTimeout").n

\* C18 as stated: when the time elapsed since the stored last activity is
\* greater than or equal to the stored idle timeout, loadSession returns null
\* and leaves no current session and no timer.  (Fails at the boundary: the
\* code compares with >, and resumes a session idle for exactly its timeout.)
C18_ExpiredAtOrAfterTimeout ==
    \A u \in SessionUsers :
        (/\ StoredRecord(ls, u) # Null
         /\ "sessionInfo" \in DOMAIN StoredRecord(ls, u)
         /\ StoredIdle(ls, u) >= StoredTimeout(ls, u)) =>
            LET r == loadSession(Manager, u, now)
            IN  /\ r.ret = Null
                /\ r.m.cs = Null
                /\ r.m.ast = Null
                /\ r.m.stt = Null

\* C19: when the current session is saved and ended, loadSession for its user
\* at any later time at which the session has been idle for less than its
\* timeout returns a session, makes it current, and that session has the id,
\* start time, last activity, settings, user state and pending
\* recommendations of the session that was ended; the idle timer is due one
\* timeout after the load and the auto-save timer is armed exactly when the
\* settings enable auto-save.  And loadSession for a user whose stored record
\* is absent or has no sessionInfo returns null and changes nothing.
C19_SaveLoadRoundTrip ==
    /\ currentSession # Null =>
          LET cs == currentSession
              ended == endSession(saveSession(Manager, now), now)
          IN  \A t \in now..(MaxTime + 1) :
                  t - cs.lastActivity.t < TimeoutOf(cs) =>
                      LET r == loadSession(ended, cs.userId, t)
                      IN  /\ r.ret # Null
                          /\ r.m.cs = r.ret
                          /\ r.ret.userId = cs.userId
                          /\ r.ret.sessionId = cs.sessionId
                          /\ r.ret.startTime = cs.startTime
                          /\ r.ret.lastActivity = cs.lastActivity
                          /\ r.ret.sessionSettings = Serialized(cs.sessionSettings)
                          /\ r.ret.userState = Serialized(cs.userState)
                          /\ r.ret.pendingRecommendations
                               = Serialized(cs.pendingRecommendations)
                          /\ r.m.stt = [deadline |-> t + TimeoutOf(cs)]
                          /\ r.m.ast # Null <=> Get(cs.sessionSettings, "autoSave").b
    /\ \A u \in Users, d \in Data :
          LET m == [Manager EXCEPT !.st = storeUserData(ls, u, d, now).ls]
          IN  (\/ StoredRecord(m.st, u) = Null
               \/ "sessionInfo" \notin DOMAIN StoredRecord(m.st, u)) =>
                  loadSession(m, u, now) = [m |-> m, ret |-> Null]

\* a session with auto-save disabled was updated, given a pending
\* recommendation and ended; one tick later, inside its idle timeout, no
\* session is current and loadSession returns that session with its id,
\* start time, mood and recommendation, and arms the idle timer only
C19_Witness ==
    /\ last.op = "endSession" /\ last.userId = "u1"
    /\ currentSession = Null /\ sessionTimeoutTimer = Null
    /\ LET r == loadSession(Manager, "u1", now)
       IN  /\ r.ret # Null
           /\ r.ret.sessionId = generateSessionId(sessionCount)
           /\ now > r.ret.lastActivity.t
           /\ r.ret.lastActivity.t > r.ret.startTime.t
           /\ Get(r.ret.userState, "currentMood") = JsString("excellent")
           /\ Len(r.ret.pendingRecommendations.e) = 1
           /\ r.m.stt = [deadline |-> now + 2]
           /\ r.m.ast = Null

\* C20 as stated: a session started with settings that do not set offlineMode
\* has offlineMode equal to the negation of what the host reports
\* (navigator.onLine) at the call.  (Fails between a change of the host's
\* connectivity and the delivery of its event: the default is the negation of
\* the manager's cached flag.)
C20_DefaultOfflineFlag ==
    \A u \in SessionUsers, settings \in SettingsOverrides :
        "offlineMode" \notin DOMAIN settings =>
            Get(startSession(Manager, u, settings, now, sessionCount + 1)
                    .cs.sessionSettings, "offlineMode")
                = JsBool(~navigatorOnLine)

\* the number of entries of a pending list that carry the id
CountOf(e, id) == Cardinality({i \in DOMAIN e : Get(e[i], "id") = id})

\* lastActivity is now and the idle timer is due one idle timeout from now
Touched(m) ==
    /\ m.cs.lastActivity = JsDate(now)
    /\ m.stt = [deadline |-> now + TimeoutOf(m.cs)]

\* C8: without a current session addPendingRecommendation and
\* removePendingRecommendation fail with NoActiveSession and change neither the
\* manager (session, timers, pending-sync queue) nor the storage; with one, add
\* appends the recommendation, remove drops every entry with the id and keeps
\* the others, and both set lastActivity to now and restart the idle timer.
C8_PendingMutators ==
    /\ \A rec \in Recommendations :
          LET r == addPendingRecommendation(Manager, rec, now)
          IN  IF currentSession = Null
              THEN r.err = NoActiveSession /\ r.m = Manager
              ELSE /\ r.err = NoError
                   /\ r.m.cs.pendingRecommendations.e
                        = Append(currentSession.pendingRecommendations.e, rec)
                   /\ Touched(r.m)
    /\ \A id \in RecommendationIds :
          LET r == removePendingRecommendation(Manager, JsString(id), now)
          IN  IF currentSession = Null
              THEN r.err = NoActiveSession /\ r.m = Manager
              ELSE /\ r.err = NoError
                   /\ CountOf(r.m.cs.pendingRecommendations.e, JsString(id)) = 0
                   /\ \A other \in RecommendationIds \ {id} :
                         CountOf(r.m.cs.pendingRecommendations.e, JsString(other))
                           = CountOf(currentSession.pendingRecommendations.e,
                                     JsString(other))
                   /\ Touched(r.m)

\* an add has just succeeded some time after the session's start, the pending
\* list holds two entries with one id, and removing that id empties the list
C8_Witness ==
    /\ last.op = "addPendingRecommendation" /\ last.err = NoError
    /\ currentSession # Null
    /\ now > currentSession.startTime.t
    /\ currentSession.lastActivity = JsDate(now)
    /\ LET e == currentSession.pendingRecommendations.e
       IN  /\ Len(e) = 2 /\ e[1] = e[2]
           /\ removePendingRecommendation(Manager, Get(e[1], "id"), now)
                .m.cs.pendingRecommendations.e = <<>>

\* C9 as stated: an activity update made without a current session fails with
\* NoActiveSession.  (updateLastActivity has no throw: it returns normally.)
C9_TouchFailsFast ==
    (last.op = "updateLastActivity" /\ last.userId = "") =>
        last.err = NoActiveSession

\* C9 amended: without a current session the activity update returns normally
\* and changes neither the manager nor the storage, while the two
\* pending-recommendation mutators fail with NoActiveSession.
C9_TouchInactiveIsNoOp ==
    /\ (last.op = "updateLastActivity" /\ last.userId = "") => last.err = NoError
    /\ currentSession = Null =>
          /\ updateLastActivity(Manager, now) = Manager
          /\ \A rec \in Recommendations :
                addPendingRecommendation(Manager, rec, now).err = NoActiveSession
          /\ \A id \in RecommendationIds :
                removePendingRecommendation(Manager, JsString(id), now).err
                  = NoActiveSession

\* an activity event has arrived after the session of a user has ended
C9_Witness ==
    /\ last.op = "updateLastActivity" /\ last.userId = "" /\ last.err = NoError
    /\ currentSession = Null /\ sessionTimeoutTimer = Null
    /\ sessionCount > 0

\* C21: a touch of the current session sets lastActivity to now and arms the
\* idle timer one full timeout ahead; the armed idle timer is never due
\* earlier than one timeout after the session's last activity, so when its
\* handler runs the session has been idle for at least its timeout; and a
\* save (which is all the auto-save callback does) changes neither
\* lastActivity nor the idle timer.
C21_SlidingIdleWindow ==
    /\ currentSession # Null =>
          /\ Touched(updateLastActivity(Manager, now))
          /\ sessionTimeoutTimer # Null
          /\ sessionTimeoutTimer.deadline
                >= currentSession.lastActivity.t + TimeoutOf(currentSession)
          /\ LET m == saveSession(Manager, now)
             IN  /\ m.cs.lastActivity = currentSession.lastActivity
                 /\ m.stt = sessionTimeoutTimer
    /\ (last.op = "sessionTimeout" /\ last.arg # Null) =>
          now - last.arg.lastActivity >= last.arg.sessionTimeout

\* the idle timer has ended a session exactly one timeout after a touch that
\* came later than the session's start
C21_Witness ==
    /\ last.op = "sessionTimeout" /\ last.arg # Null
    /\ last.arg.lastActivity > 0
    /\ now = last.arg.lastActivity + last.arg.sessionTimeout
    /\ currentSession = Null
    /\ StoredRecord(ls, last.userId) # Null
    /\ Get(StoredRecord(ls, last.userId)["sessionInfo"], "startTime").iso
         < last.arg.lastActivity

\* C22: pauseSession disarms the auto-save timer, saves the current session
\* and leaves the session and the idle timer, deadline included, as they
\* were; resumeSession on a current session touches it and leaves auto-save
\* armed exactly when the settings enable it, and without a session changes
\* nothing; and each of the four timer helpers leaves the other timer alone.
C22_TimerIndependence ==
    /\ LET m == pauseSession(Manager, now)
       IN  /\ m.ast = Null
           /\ m.stt = sessionTimeoutTimer
           /\ m.cs = currentSession
           /\ currentSession # Null =>
                 StoredRecord(m.st, currentSession.userId)
                   = PayloadOf(currentSession)
    /\ LET m == resumeSession(Manager, now)
       IN  IF currentSession = Null THEN m = Manager
           ELSE /\ Touched(m)
                /\ m.ast # Null <=> Get(currentSession.sessionSettings, "autoSave").b
                /\ m.ast # Null =>
                      m.ast.interval
                        = Get(currentSession.sessionSettings, "autoSaveInterval").n
    /\ stopAutoSave(Manager).stt = sessionTimeoutTimer
    /\ startAutoSave(Manager).stt = sessionTimeoutTimer
    /\ stopSessionTimeout(Manager).ast = autoSaveTimer
    /\ startSessionTimeout(Manager, now).ast = autoSaveTimer

\* a session with auto-save enabled has just been paused at the time its idle
\* timer is due: auto-save is disarmed, the idle timer is still armed and
\* ready to fire, and the state updated before the pause is in the storage
C22_Witness ==
    /\ last.op = "pauseSession" /\ last.userId = "u1"
    /\ currentSession # Null
    /\ Get(currentSession.sessionSettings, "autoSave").b
    /\ autoSaveTimer = Null
    /\ sessionTimeoutTimer # Null /\ sessionTimeoutTimer.deadline <= now
    /\ Get(StoredRecord(ls, "u1")["userState"], "currentMood") = JsString("excellent")

\* C23: when a write of the reconnect drain fails, syncPendingData returns
\* without an error, the queue is as the step found it (every entry, in
\* order) and the storage is as it was; the queue is emptied only by the
\* step that wrote its last entry successfully, and a step that wrote an
\* earlier entry leaves the queue alone and goes on to the next entry.
C23_FailedDrainKeepsQueue ==
    /\ drainPos # 0 =>
          /\ drainPos \in 2..Len(pendingSync)
          /\ LET r == syncStep(Manager, drainPos, now)
                 failed == storeUserData(ls, pendingSync[drainPos].userId,
                                         pendingSync[drainPos].data, now).err # NoError
             IN  /\ r.err = NoError
                 /\ r.ok = ~failed
                 /\ failed => r.m.q = pendingSync /\ r.m.st = ls /\ r.pos = 0
                 /\ r.m.q = <<>> <=> (~failed /\ drainPos = Len(pendingSync))
                 /\ r.m.q # <<>> => r.m.q = pendingSync
    /\ last.op = "syncStep" =>
          /\ last.err = NoError
          /\ ~last.arg.ok => pendingSync = last.arg.queue /\ drainPos = 0
          /\ pendingSync # last.arg.queue =>
                /\ pendingSync = <<>>
                /\ last.arg.ok /\ last.arg.pos = Len(last.arg.queue)

\* the drain wrote the first of two queued entries and failed on the second,
\* the medium having stopped accepting writes in between: both entries are
\* still queued and no drain is under way
C23_Witness ==
    /\ last.op = "syncStep" /\ ~last.arg.ok /\ last.arg.pos = 2
    /\ ~available
    /\ isOnline
    /\ Len(pendingSync) = 2 /\ pendingSync = last.arg.queue
    /\ drainPos = 0

\* the entry the reconnect drain writes next: the first one when the online
\* event is due, the one at drainPos when the drain is suspended, else 0
NextToSync ==
    IF drainPos # 0 THEN drainPos
    ELSE IF navigatorOnLine /\ ~isOnline /\ pendingSync # <<>> THEN 1
    ELSE 0

\* C24 as stated: the reconnect drain writes a queued payload only if
\* resolveDataConflicts selects it over the record the store holds for its
\* user; otherwise the step leaves the storage as it is.  (Fails: the drain
\* never calls the resolver and writes every entry.)
C24_DrainReconciles ==
    NextToSync # 0 =>
        LET entry == pendingSync[NextToSync]
            queued == JsObject(entry.data)
            stored == retrieveUserData(ls, entry.userId)
        IN  (stored # Null /\ resolveDataConflicts(queued, stored) # queued) =>
                syncStep(Manager, NextToSync, now).m.st = ls

\* C26 as stated: from a state in which deleteUserData(u) was the last call,
\* retrieveUserData(u) is null and no session is current, a step that is not
\* a store, an import or a session start leaves retrieveUserData(u) null (the
\* medium accepting writes before and after).  (Fails: the reconnect drain
\* writes the entries queued for u before the delete.)
C26_DeletedStaysDeleted ==
    [][ \A u \in SessionUsers :
          (/\ last.op = "deleteUserData" /\ last.userId = u
           /\ currentSession = Null
           /\ available /\ available'
           /\ retrieveUserData(ls, u) = Null
           /\ last'.op \notin {"startSession", "storeUserData", "importUserData"})
          => retrieveUserData(ls', u) = Null ]_vars

\* C27 as stated: when saveSession was the last call, made while the
\* reconnect drain was suspended, and wrote the session's payload to the
\* store, the step in which the drain finishes leaves that payload as the
\* stored record of the session's user.  (Fails: the drain goes on to write
\* the payloads queued before the save.)
C27_DrainKeepsNewerSave ==
    [][ (/\ drainPos # 0 /\ drainPos' = 0
         /\ last.op = "saveSession"
         /\ currentSession # Null
         /\ available /\ available'
         /\ StoredRecord(ls, currentSession.userId) = PayloadOf(currentSession))
        => StoredRecord(ls', currentSession.userId) = PayloadOf(currentSession)
      ]_vars

\* C28 as stated: loadSession(u) called while a session is current returns
\* null and leaves manager and storage unchanged when u has no stored record
\* (or one without sessionInfo); otherwise the state of the session that was
\* current is in the store afterwards, as the stored record of its user.
\* (Fails: loadSession replaces the current session without saving it.)
C28_LoadSavesActiveSession ==
    currentSession # Null =>
        \A u \in SessionUsers :
            LET r == loadSession(Manager, u, now)
                record == StoredRecord(ls, u)
            IN  IF record = Null \/ "sessionInfo" \notin DOMAIN record
                THEN r.ret = Null /\ r.m = Manager
                ELSE StoredRecord(r.m.st, currentSession.userId)
                       = PayloadOf(currentSession)

\* C29 as stated: while a session is current the idle timer is armed and due
\* at lastActivity + sessionTimeout, and until then getSessionAnalytics
\* reports the session active with a positive timeUntilTimeout; without a
\* session it reports zeros and inactive.  (Fails after loadSession: it arms
\* the timer one timeout from the load and keeps the stored lastActivity.)
C29_DeadlineFollowsLastActivity ==
    IF currentSession = Null
    THEN getSessionAnalytics(Manager, now)
           = [duration |-> 0, activityCount |-> 0, isActive |-> FALSE,
              timeUntilTimeout |-> 0]
    ELSE /\ sessionTimeoutTimer # Null
         /\ sessionTimeoutTimer.deadline
              = currentSession.lastActivity.t + TimeoutOf(currentSession)
         /\ now < sessionTimeoutTimer.deadline =>
              /\ getSessionAnalytics(Manager, now).isActive
              /\ getSessionAnalytics(Manager, now).timeUntilTimeout > 0

\* C5 as stated, its conclusion: when the online event has drained a non-empty
\* pending-sync queue, the queue is empty and the record retrieveUserData
\* returns for the user is, but for _metadata, the JSON round trip of the
\* payload of the latest offline save as it stood at that save.  (Fails when a
\* recommendation was added after the save: the queued payload holds the
\* session's own array.)
C5_ReconnectReflectsLatestSave ==
    (last.op = "online" /\ last.arg # Null) =>
        /\ pendingSync = <<>>
        /\ LET r == retrieveUserData(ls, last.arg.userId)
           IN  /\ r # Null
               /\ Restrict(r.f, DOMAIN r.f \ {"_metadata"})
                    = Serialized(JsObject(last.arg.enqueued)).f

-----------------------------------------------------------------------------
(* Claims on resolveDataConflicts, checked under SpecResolve *)

\* the candidate carries sessionInfo.lastActivity
HasLastActivity(c) ==
    /\ "sessionInfo" \in DOMAIN c.f
    /\ "lastActivity" \in DOMAIN c.f["sessionInfo"].f

\* the instant of the candidate's last activity, the epoch when it carries none
InstantOf(c) ==
    IF HasLastActivity(c)
    THEN LET v == c.f["sessionInfo"].f["lastActivity"]
         IN  IF v.k = "Date" THEN v.t ELSE v.iso
    ELSE 0

\* C6: of two candidates the one with the strictly later last activity is
\* returned, whichever is given first, a candidate without
\* sessionInfo.lastActivity counting as active at the epoch; and a candidate
\* resolved against itself is returned.
C6_LastWriteWins ==
    last.op = "resolveDataConflicts" =>
        LET A == last.arg.localData
            B == last.arg.remoteData
        IN  /\ InstantOf(B) > InstantOf(A) => last.arg.result = B
            /\ InstantOf(A) > InstantOf(B) => last.arg.result = A
            /\ A = B => last.arg.result = A

\* the resolver has returned the first candidate, which is later than a second
\* one that carries no last activity
C6_Witness ==
    /\ last.op = "resolveDataConflicts"
    /\ HasLastActivity(last.arg.localData)
    /\ ~HasLastActivity(last.arg.remoteData)
    /\ InstantOf(last.arg.localData) > 0
    /\ last.arg.result = last.arg.localData
    /\ last.arg.result # last.arg.remoteData

\* C7 as stated: of two candidates with equal last-activity instants (both
\* absent included) the first-given one is returned.  (The code returns the
\* second.)
C7_TiesFavorLocal ==
    (/\ last.op = "resolveDataConflicts"
     /\ InstantOf(last.arg.localData) = InstantOf(last.arg.remoteData)) =>
        last.arg.result = last.arg.localData

=============================================================================
